---- MODULE Spec2Model ----
(***************************************************************************)
(* Monte Carlo tree search (src/src/lib.rs, mod mcts) driven by the        *)
(* tic-tac-toe rules of mod tic_tac_toe.  One call of find_next_move is    *)
(* modelled as a state machine: the arena of nodes, the cursor of the      *)
(* current phase, the cloned board of the random playout and the value the *)
(* call ends with.  The random generator is a nondeterministic choice.     *)
(* The game loop of tic_tac_toe::run and the two tree searches of          *)
(* src/src/basic_search.rs have their own specifications.                  *)
(***************************************************************************)
EXTENDS Integers, Sequences, FiniteSets, TLC

VARIABLES
    nodes,        \* the arena: nodes[1] is root_node, the others in allocation order
    own_player,   \* the second argument of find_next_move
    pc,           \* position inside find_next_move
    tries,        \* completed iterations of `for _ in 0..MAX_TRIES`
    promising,    \* promising_node (0 before the first selection)
    state,        \* `state`, the clone simulate_random_playout plays on
    playout_result, \* the Status simulate_random_playout returned
    returned,     \* the value find_next_move returned (NoState while running)
    called,       \* the last GameState method the engine called that needs a
                  \* non-terminal receiver, with the receiver it was called on
    \* run::main
    main_pc,      \* position inside the loop of run::main
    main_board,   \* `board` of run::main
    winner,       \* the value the loop broke with (NotFinished while it runs)
    \* basic_search
    tree,         \* the searched tree: tree[1] is the root, tree[n].children node ids
    searched,     \* the searched value
    search_pc,    \* which search runs
    candidates,   \* the VecDeque of breadth_first_search
    bfs_result,   \* what breadth_first_search returned
    dfs_result    \* what depth_first_search returned

mcts_vars == <<nodes, own_player, pc, tries, promising, state, playout_result, returned, called>>
main_vars == <<main_pc, main_board, winner>>
search_vars == <<tree, searched, search_pc, candidates, bfs_result, dfs_result>>
vars == <<mcts_vars, main_vars, search_vars>>

\* ---------------------------------------------------------------- bounds
\* Iteration budget of the modelled call (MAX_TRIES of the source is 10_000).
MaxTries == 8

\* largest number of nodes of a searched tree (basic_search)
MaxNodes == 4

\* node values of the searched trees are 1..MaxValue, searched values 1..MaxValue + 1
MaxValue == 2

\* ---------------------------------------------------------------- numbers
\* TLC's integers are 32 bits wide: i32 values are held as they are, and
\* u32::MAX, the only u32 above i32::MAX the program computes, as UctMax.
I32_MAX == 2147483647
I32_MIN == (-I32_MAX) - 1

\* the key uct gives an unexplored child (u32::MAX); every other key uct
\* returns for the visit counts of the model is below 2^31
UctMax == 2147483647

\* score + 1 on an i32 as the release build computes it (two's complement wrap)
WrapIncI32(x) == IF x = I32_MAX THEN I32_MIN ELSE x + 1

Min(S) == CHOOSE x \in S : \A y \in S : x <= y
Max(S) == CHOOSE x \in S : \A y \in S : x >= y

\* ---------------------------------------------------------------- Status
InProgress == <<"InProgress">>
Draw == <<"Draw">>
Winner(p) == <<"Winner", p>>

\* ---------------------------------------------------------------- tic_tac_toe
Player == {"O", "X"}

\* impl PlayerState for Player
next(p) == IF p = "O" THEN "X" ELSE "O"

\* impl From<Player> for State
StateFrom(p) == p

Cells == 1..9

Board(active, cells) == [active_player |-> active, board |-> cells]

free_fields(b) == Cardinality({i \in Cells : b.board[i] = "Empty"})

\* indices of the empty fields in board order
EmptyFields(b) == SelectSeq(<<1, 2, 3, 4, 5, 6, 7, 8, 9>>, LAMBDA i : b.board[i] = "Empty")

next_states(b) ==
    [k \in 1..Len(EmptyFields(b)) |->
        [active_player |-> next(b.active_player),
         board |-> [b.board EXCEPT ![EmptyFields(b)[k]] = StateFrom(next(b.active_player))]]]

all_checks ==
    << <<1, 2, 3>>, <<4, 5, 6>>, <<7, 8, 9>>,
       <<1, 4, 7>>, <<2, 5, 8>>, <<3, 6, 9>>,
       <<1, 5, 9>>, <<3, 5, 7>> >>

\* the match arm a check takes: "X", "O" or "None"
CheckArm(b, check) ==
    IF \A j \in 1..3 : b.board[check[j]] = "X" THEN "X"
    ELSE IF \A j \in 1..3 : b.board[check[j]] = "O" THEN "O"
    ELSE "None"

status(b) ==
    IF free_fields(b) = 0 THEN Draw
    ELSE LET hits == {i \in 1..Len(all_checks) : CheckArm(b, all_checks[i]) # "None"}
         IN  IF hits = {} THEN InProgress
             ELSE Winner(CheckArm(b, all_checks[Min(hits)]))

toggle_player(b) == [b EXCEPT !.active_player = next(b.active_player)]

\* random_field is the value gen_range(0..free_fields) produced
next_random_play(b, random_field) ==
    [b EXCEPT !.board[EmptyFields(b)[random_field + 1]] = StateFrom(b.active_player)]

\* ---------------------------------------------------------------- tic_tac_toe::run
PLAYING_PLAYER == "O"
AI_PLAYER == "X"

\* Option<Option<Player>>: None, Some(None), Some(Some(winner))
NotFinished == <<"None">>
FinishedDraw == <<"Some", "None">>
FinishedWinner(p) == <<"Some", "Some", p>>

\* variant: only a winner ends the game
is_finished_winner_only(b) ==
    IF status(b)[1] = "Winner" THEN FinishedWinner(status(b)[2])
    ELSE NotFinished

is_finished(b) ==
    IF status(b)[1] = "Winner" THEN FinishedWinner(status(b)[2])
    ELSE IF free_fields(b) = 0 THEN FinishedDraw
    ELSE NotFinished

\* ---------------------------------------------------------------- mcts::Node
NoNode == 0          \* Option::None for a node reference
NoState == [active_player |-> "O", board |-> <<>>]
NoStatus == <<"None">>

\* Node::new: no parent, no children, counters at zero
NodeNew(st, player) ==
    [state |-> st, player |-> player, visited |-> 0, score |-> 0,
     parent |-> NoNode, children |-> <<>>]

\* variant: the first of the maximal elements
max_by_key_first(ids, keys) ==
    IF ids = <<>> THEN NoNode
    ELSE ids[Min({i \in 1..Len(ids) : \A j \in 1..Len(ids) : keys[j] <= keys[i]})]

\* Iterator::max_by_key over a slice of node ids, keys[i] being the key of
\* ids[i]: the last of the maximal elements, NoNode for an empty slice
max_by_key(ids, keys) ==
    IF ids = <<>> THEN NoNode
    ELSE ids[Max({i \in 1..Len(ids) : \A j \in 1..Len(ids) : keys[j] <= keys[i]})]

\* variant: the child with the most visits instead of the highest score
child_with_max_visited(ns, n) ==
    max_by_key(ns[n].children, [i \in 1..Len(ns[n].children) |-> ns[ns[n].children[i]].visited])

child_with_max_score(ns, n) ==
    max_by_key(ns[n].children, [i \in 1..Len(ns[n].children) |-> ns[ns[n].children[i]].score])

\* ---------------------------------------------------------------- mcts::uct
\* i32 division truncates toward zero (i32::MIN / -1 overflows in the
\* source and is not given a value here)
TruncDivPos(a, m) ==
    IF a >= 0 \/ a % m = 0 THEN a \div m ELSE (a \div m) + 1

TruncDiv(a, b) ==
    IF b > 0 THEN TruncDivPos(a, b)
    ELSE IF b = I32_MIN THEN (IF a = I32_MIN THEN 1 ELSE 0)
    ELSE -TruncDivPos(a, -b)

\* `as u32` on an f64 saturates
SatU32(x) == IF x < 0 THEN 0 ELSE IF x > UctMax THEN UctMax ELSE x

\* ExpHalfCeil[n] = ceil(e^(n/2)) for n = 1..10
ExpHalfCeil == <<2, 3, 5, 8, 13, 21, 34, 55, 91, 149>>

\* floor(SQRT_2 * sqrt(ln(total_visit) / node_visit)) for node_visit > 0 and
\* 1 <= total_visit < 149: the floor is at least k iff total_visit >= e^(k*k*node_visit/2)
ExplorationFloor(total_visit, node_visit) ==
    Max({k \in 0..3 : k = 0 \/ (k * k * node_visit <= 10
                                /\ ExpHalfCeil[k * k * node_visit] <= total_visit)})

\* variant: the early return also takes negative visit counts
uct_nonpositive(total_visit, win_score, node_visit) ==
    IF node_visit <= 0 THEN UctMax
    ELSE IF total_visit = 0 THEN 0
         ELSE SatU32(TruncDiv(win_score, node_visit) + ExplorationFloor(total_visit, node_visit))

uct(total_visit, win_score, node_visit) ==
    IF node_visit = 0 THEN UctMax
    ELSE LET q == TruncDiv(win_score, node_visit)
         IN  IF node_visit < 0
             THEN IF total_visit = 0 THEN UctMax          \* ln 0 / negative = +inf
                  ELSE IF total_visit = 1 THEN SatU32(q)    \* sqrt(-0.0) = -0.0
                  ELSE 0                                    \* sqrt(negative) = NaN, NaN as u32 = 0
             ELSE IF total_visit = 0 THEN 0                 \* sqrt(-inf) = NaN
                  ELSE SatU32(q + ExplorationFloor(total_visit, node_visit))

\* the key the closure of find_best_node_with_uct computes for child c
UctKey(ns, parent_visit_count, c) ==
    uct(parent_visit_count, ns[c].score, ns[c].score)

find_best_node_with_uct(ns, n) ==
    max_by_key(ns[n].children,
               [i \in 1..Len(ns[n].children) |-> UctKey(ns, ns[n].visited, ns[n].children[i])])

\* ---------------------------------------------------------------- mcts
\* variant: Phase 2 without the status check
ShouldExpandAlways(ns, n) == TRUE

\* whether find_next_move runs Phase 2 on the selected node
ShouldExpand(ns, n) == status(ns[n].state) = InProgress

\* variant: the successors are built after the turn was toggled once more,
\* so the children carry the mark of the player who moved last
expand_node_toggled(ns, n) ==
    LET possible_states == next_states(toggle_player(ns[n].state))
        k == Len(possible_states)
        new_nodes == [i \in 1..k |->
                        [state |-> possible_states[i],
                         player |-> next(ns[n].player),
                         visited |-> 0,
                         score |-> 0,
                         parent |-> n,
                         children |-> <<>>]]
        children == [i \in 1..k |-> Len(ns) + i]
    IN  [ns EXCEPT ![n].children = children] \o new_nodes

\* variant: the children inherit the parent reference of the expanded node
expand_node_orphan(ns, n) ==
    LET possible_states == next_states(ns[n].state)
        k == Len(possible_states)
        new_nodes == [i \in 1..k |->
                        [state |-> possible_states[i],
                         player |-> next(ns[n].player),
                         visited |-> 0,
                         score |-> 0,
                         parent |-> ns[n].parent,
                         children |-> <<>>]]
        children == [i \in 1..k |-> Len(ns) + i]
    IN  [ns EXCEPT ![n].children = children] \o new_nodes

\* variant: the last successor is not allocated
expand_node_partial(ns, n) ==
    LET possible_states == next_states(ns[n].state)
        k == Len(possible_states) - 1
        new_nodes == [i \in 1..k |->
                        [state |-> possible_states[i],
                         player |-> next(ns[n].player),
                         visited |-> 0,
                         score |-> 0,
                         parent |-> n,
                         children |-> <<>>]]
        children == [i \in 1..k |-> Len(ns) + i]
    IN  [ns EXCEPT ![n].children = children] \o new_nodes

\* the arena after expand_node(alloc, node): one new node per next state,
\* appended in iteration order, and node.children set to them
expand_node(ns, n) ==
    LET possible_states == next_states(ns[n].state)
        k == Len(possible_states)
        new_nodes == [i \in 1..k |->
                        [state |-> possible_states[i],
                         player |-> next(ns[n].player),
                         visited |-> 0,
                         score |-> 0,
                         parent |-> n,
                         children |-> <<>>]]
        children == [i \in 1..k |-> Len(ns) + i]
    IN  [ns EXCEPT ![n].children = children] \o new_nodes

\* the nodes back_propagation walks: n and its parent chain up to the root
RECURSIVE ParentChain(_, _)
ParentChain(ns, n) ==
    IF n = NoNode THEN {} ELSE {n} \cup ParentChain(ns, ns[n].parent)

\* variant: the score follows the player tag of the node
ScoreHitByPlayer(ns, n, resulting_status) == resulting_status = Winner(ns[n].player)

\* whether back_propagation adds one to the score of node n
ScoreHit(ns, n, resulting_status) == status(ns[n].state) = resulting_status

\* variant: the walk stops below the root
back_propagation_below_root(ns, n, resulting_status) ==
    [i \in DOMAIN ns |->
        IF i \in ParentChain(ns, n) /\ ns[i].parent # NoNode
        THEN [ns[i] EXCEPT !.visited = @ + 1,
                           !.score = IF ScoreHit(ns, i, resulting_status)
                                     THEN WrapIncI32(@) ELSE @]
        ELSE ns[i]]

back_propagation(ns, n, resulting_status) ==
    [i \in DOMAIN ns |->
        IF i \in ParentChain(ns, n)
        THEN [ns[i] EXCEPT !.visited = @ + 1,
                           !.score = IF ScoreHit(ns, i, resulting_status)
                                     THEN WrapIncI32(@) ELSE @]
        ELSE ns[i]]

\* ---------------------------------------------------------------- inputs
E == "Empty"

\* The calls of find_next_move the model explores: boards built by
\* alternating moves, with the player whose move is searched.
RootInputs ==
    { \* O threatens 1-2-3; the only block is field 3
      [state |-> Board("O", <<"O", "O", E,   "X", "X", "O",   E, E, "X">>), own |-> "X"],
      \* the same threat one move earlier, four free fields
      [state |-> Board("O", <<"O", "O", E,   "X", "X", "O",   E, E, E>>), own |-> "X"],
      \* field 3 both wins for X and blocks O's diagonal 3-5-7
      [state |-> Board("O", <<"X", "X", E,   "O", "O", "X",   "O", E, E>>), own |-> "X"],
      \* two free fields, O threatens 7-8-9 at field 8
      [state |-> Board("O", <<"X", "O", "X",   E, "X", "O",   "O", E, "O">>), own |-> "X"],
      \* one free field: a single legal continuation
      [state |-> Board("O", <<"O", "X", "O",   "X", "X", "O",   "O", E, "X">>), own |-> "X"],
      \* the board after the human's fourth move in run::main: the last
      \* mover recorded in active_player is the engine's own player
      [state |-> Board("X", <<"O", "O", "X",   E, "X", "O",   "O", E, "O">>), own |-> "X"],
      \* terminal inputs: a full board, and a board the opponent has won
      [state |-> Board("O", <<"O", "X", "O",   "X", "X", "O",   "O", "O", "X">>), own |-> "X"],
      [state |-> Board("O", <<"O", "O", "O",   "X", "X", E,   E, E, E>>), own |-> "X"] }

\* ---------------------------------------------------------------- find_next_move
root_node == 1
opponent == next(own_player)
current_state == nodes[root_node].state

\* run::main is not running
MainIdle ==
    /\ main_pc = "idle"
    /\ main_board = NoState
    /\ winner = NotFinished

\* no tree search is running
SearchIdle ==
    /\ tree = <<>>
    /\ searched = 0
    /\ search_pc = "idle"
    /\ candidates = <<>>
    /\ bfs_result = FALSE
    /\ dfs_result = FALSE

\* find_next_move is not running
MctsIdle ==
    /\ nodes = <<>>
    /\ own_player = AI_PLAYER
    /\ pc = "idle"
    /\ tries = 0
    /\ promising = NoNode
    /\ state = NoState
    /\ playout_result = NoStatus
    /\ returned = NoState
    /\ called = [fn |-> "none", on |-> NoState]

Init ==
    \E inp \in RootInputs :
        /\ MainIdle
        /\ SearchIdle
        /\ nodes = <<NodeNew(inp.state, next(inp.own))>>
        /\ own_player = inp.own
        /\ pc = "for"
        /\ tries = 0
        /\ promising = NoNode
        /\ state = NoState
        /\ playout_result = NoStatus
        /\ returned = NoState
        /\ called = [fn |-> "none", on |-> NoState]

\* head of `for _ in 0..MAX_TRIES`; entering the body starts
\* select_promising_node at the root
ForLoop ==
    /\ pc = "for"
    /\ IF tries < MaxTries
       THEN /\ promising' = root_node
            /\ pc' = "select"
       ELSE /\ pc' = "finish"
            /\ UNCHANGED promising
    /\ UNCHANGED <<nodes, own_player, tries, state, playout_result, returned, called>>
    /\ UNCHANGED <<main_vars, search_vars>>

\* one turn of the while loop of select_promising_node
SelectDescend ==
    /\ pc = "select"
    /\ nodes[promising].children # <<>>
    /\ promising' = find_best_node_with_uct(nodes, promising)
    /\ UNCHANGED <<nodes, own_player, pc, tries, state, playout_result, returned, called>>
    /\ UNCHANGED <<main_vars, search_vars>>

\* select_promising_node returns the node without children
SelectReturn ==
    /\ pc = "select"
    /\ nodes[promising].children = <<>>
    /\ pc' = "expand"
    /\ UNCHANGED <<nodes, own_player, tries, promising, state, playout_result, returned, called>>
    /\ UNCHANGED <<main_vars, search_vars>>

\* Phase 2 - Expansion
Expansion ==
    /\ pc = "expand"
    /\ IF ShouldExpand(nodes, promising)
       THEN /\ nodes' = expand_node(nodes, promising)
            /\ called' = [fn |-> "next_states", on |-> nodes[promising].state]
       ELSE UNCHANGED <<nodes, called>>
    /\ pc' = "pick"
    /\ UNCHANGED <<own_player, tries, promising, state, playout_result, returned>>
    /\ UNCHANGED <<main_vars, search_vars>>

\* Phase 3, choice of the node to simulate: Node::random_child when the
\* selected node has children
RandomChild ==
    /\ pc = "pick"
    /\ IF nodes[promising].children # <<>>
       THEN \E random_index \in 0..(Len(nodes[promising].children) - 1) :
                promising' = nodes[promising].children[random_index + 1]
       ELSE UNCHANGED promising
    /\ pc' = "simulate"
    /\ UNCHANGED <<nodes, own_player, tries, state, playout_result, returned, called>>
    /\ UNCHANGED <<main_vars, search_vars>>

\* variant: the early return is taken for a win of either player
ShortCircuitAnyWinner(board_status, opp) == board_status[1] = "Winner"

\* whether simulate_random_playout takes its early return on board_status
ShortCircuit(board_status, opp) == board_status = Winner(opp)

\* simulate_random_playout up to its while loop
SimulateStart ==
    /\ pc = "simulate"
    /\ state' = nodes[promising].state
    /\ IF ShortCircuit(status(nodes[promising].state), opponent)
       THEN /\ nodes' = IF nodes[promising].parent # NoNode
                        THEN [nodes EXCEPT ![nodes[promising].parent].score = I32_MIN]
                        ELSE nodes
            /\ playout_result' = status(nodes[promising].state)
            /\ pc' = "backprop"
       ELSE /\ pc' = "playout"
            /\ UNCHANGED <<nodes, playout_result>>
    /\ UNCHANGED <<own_player, tries, promising, returned, called>>
    /\ UNCHANGED <<main_vars, search_vars>>

\* whether the while loop of simulate_random_playout runs its body
PlayoutContinues(board_status) == board_status = InProgress

\* variant: the random move is lost, only the turn changes
PlayoutMoveLost(b, random_field) == toggle_player(b)

\* the board after one body of the playout loop
PlayoutMove(b, random_field) == next_random_play(toggle_player(b), random_field)

PlayoutStep ==
    /\ pc = "playout"
    /\ PlayoutContinues(status(state))
    /\ \E random_field \in 0..(free_fields(toggle_player(state)) - 1) :
           state' = PlayoutMove(state, random_field)
    /\ called' = [fn |-> "next_random_play", on |-> toggle_player(state)]
    /\ UNCHANGED <<nodes, own_player, pc, tries, promising, playout_result, returned>>
    /\ UNCHANGED <<main_vars, search_vars>>

PlayoutReturn ==
    /\ pc = "playout"
    /\ ~PlayoutContinues(status(state))
    /\ playout_result' = status(state)
    /\ pc' = "backprop"
    /\ UNCHANGED <<nodes, own_player, tries, promising, state, returned, called>>
    /\ UNCHANGED <<main_vars, search_vars>>

\* Phase 4 - Update, and the end of the loop body
BackPropagation ==
    /\ pc = "backprop"
    /\ nodes' = back_propagation(nodes, promising, playout_result)
    /\ tries' = tries + 1
    /\ pc' = "for"
    /\ UNCHANGED <<own_player, promising, state, playout_result, returned, called>>
    /\ UNCHANGED <<main_vars, search_vars>>

\* variant: fall back to the input state instead of unwrapping
UnwrapOrInput(ns, winner_node) ==
    IF winner_node = NoNode
    THEN [pc |-> "returned", returned |-> ns[1].state]
    ELSE [pc |-> "returned", returned |-> ns[winner_node].state]

\* what find_next_move does with winner_node: unwrap panics on None
Unwrap(ns, winner_node) ==
    IF winner_node = NoNode
    THEN [pc |-> "panicked", returned |-> NoState]
    ELSE [pc |-> "returned", returned |-> ns[winner_node].state]

Finish ==
    /\ pc = "finish"
    /\ LET out == Unwrap(nodes, child_with_max_score(nodes, root_node))
       IN  /\ pc' = out.pc
           /\ returned' = out.returned
    /\ UNCHANGED <<nodes, own_player, tries, promising, state, playout_result, called>>
    /\ UNCHANGED <<main_vars, search_vars>>

Next ==
    \/ ForLoop
    \/ SelectDescend
    \/ SelectReturn
    \/ Expansion
    \/ RandomChild
    \/ SimulateStart
    \/ PlayoutStep
    \/ PlayoutReturn
    \/ BackPropagation
    \/ Finish

Spec == Init /\ [][Next]_vars

\* the loop and the playout always take their next step
FairSpec == Spec /\ WF_vars(Next)

TypeOK ==
    /\ pc \in {"idle", "for", "select", "expand", "pick", "simulate", "playout",
               "backprop", "finish", "returned", "panicked"}
    /\ tries \in 0..MaxTries
    /\ promising \in 0..Len(nodes)
    /\ \A n \in 1..Len(nodes) : nodes[n].parent \in 0..Len(nodes)

\* ---------------------------------------------------------------- helpers of the properties
Finished == pc \in {"returned", "panicked"}

\* the elements of a sequence
Range(f) == {f[i] : i \in DOMAIN f}

\* field c completes a line in which the opponent holds the two other fields
ThreatField(b, opp, c) ==
    /\ b.board[c] = E
    /\ \E i \in 1..Len(all_checks) :
          /\ c \in Range(all_checks[i])
          /\ \A d \in Range(all_checks[i]) \ {c} : b.board[d] = StateFrom(opp)

Terminal(st) == st # InProgress

\* every board the call reached by play: the states of the nodes below the
\* root and the boards of the playout
BoardsReached ==
    {nodes[n].state : n \in 2..Len(nodes)} \cup (IF pc = "playout" THEN {state} ELSE {})

\* ---------------------------------------------------------------- C1
\* C1: when find_next_move was called on an InProgress state and has
\* returned, the returned state is one of current_state.next_states().
C1_ReturnedIsLegalMove ==
    (pc = "returned" /\ status(current_state) = InProgress)
        => returned \in Range(next_states(current_state))

C1_Witness ==
    /\ pc = "returned"
    /\ status(current_state) = InProgress
    /\ Len(next_states(current_state)) >= 3
    /\ returned \in Range(next_states(current_state))

\* ---------------------------------------------------------------- C2
\* C2: called with the opponent as last mover on an InProgress board on
\* which the opponent holds two fields of a line whose third field is empty,
\* find_next_move returns the state with the searching player's mark on that
\* field.
C2_BlocksOpenLine ==
    (/\ pc = "returned"
     /\ status(current_state) = InProgress
     /\ current_state.active_player = opponent)
        => \A c \in Cells :
              ThreatField(current_state, opponent, c)
                  => returned.board[c] = StateFrom(own_player)

\* ---------------------------------------------------------------- C3
\* C3: back_propagation for outcome O adds one to the visit count of exactly
\* the nodes of the parent chain of the simulated node, and adds one to the
\* score of exactly those chain nodes whose player tag is the winner O names.
C3_BackPropagationByPlayerTag ==
    [][pc = "backprop" =>
         \A n \in 1..Len(nodes) :
            LET on_chain == n \in ParentChain(nodes, promising)
            IN  /\ nodes'[n].visited = nodes[n].visited + (IF on_chain THEN 1 ELSE 0)
                /\ nodes'[n].score =
                      nodes[n].score
                      + (IF on_chain /\ playout_result = Winner(nodes[n].player)
                         THEN 1 ELSE 0)]_vars

\* ---------------------------------------------------------------- C4
\* C4: when select_promising_node descends from a node that has a child with
\* visit count 0, the child it descends into has visit count 0.
C4_UnvisitedChildPreferred ==
    [][(/\ pc = "select"
        /\ nodes[promising].children # <<>>
        /\ \E c \in Range(nodes[promising].children) : nodes[c].visited = 0)
           => nodes[promising'].visited = 0]_vars

\* ---------------------------------------------------------------- C5
\* C5: a call on an InProgress state runs exactly MaxTries iterations and
\* returns; every selection descent reaches a node without children and
\* every random playout reaches a terminal status.
C5_Terminates ==
    /\ (pc = "for" /\ tries = 0 /\ status(current_state) = InProgress)
          ~> (pc = "returned" /\ tries = MaxTries)
    /\ (pc = "select") ~> (pc = "expand" /\ nodes[promising].children = <<>>)
    /\ (pc = "playout") ~> (pc = "backprop" /\ Terminal(playout_result))
    /\ [](Finished => tries = MaxTries)

\* a finished call on a position with a single legal continuation
C5_Witness ==
    /\ pc = "returned"
    /\ tries = MaxTries
    /\ status(current_state) = InProgress
    /\ Len(next_states(current_state)) = 1

\* ---------------------------------------------------------------- C6
\* C6: on every board the search reaches by play, in the tree and in the
\* playouts, status() is Draw or Winner exactly when next_states() is empty.
C6_TerminalIffNoNextStates ==
    \A b \in BoardsReached : Terminal(status(b)) <=> (next_states(b) = <<>>)

\* ---------------------------------------------------------------- C7
\* C7: right after expand_node on a node whose state has k next states, the
\* node has k children, the i-th holding the i-th next state, pairwise
\* distinct, each with visit count 0, score 0, no children and the expanded
\* node as parent.
C7_ExpansionComplete ==
    (pc = "pick" /\ status(nodes[promising].state) = InProgress)
        => LET ch == nodes[promising].children
               ns == next_states(nodes[promising].state)
           IN  /\ Len(ch) = Len(ns)
               /\ \A i \in 1..Len(ch) :
                     /\ ch[i] \in 1..Len(nodes)
                     /\ nodes[ch[i]].state = ns[i]
                     /\ nodes[ch[i]].visited = 0
                     /\ nodes[ch[i]].score = 0
                     /\ nodes[ch[i]].children = <<>>
                     /\ nodes[ch[i]].parent = promising
               /\ \A i, j \in 1..Len(ch) :
                     i # j => (ch[i] # ch[j] /\ nodes[ch[i]].state # nodes[ch[j]].state)

C7_Witness ==
    /\ pc = "pick"
    /\ status(nodes[promising].state) = InProgress
    /\ Len(nodes[promising].children) >= 2
    /\ promising # root_node

\* ---------------------------------------------------------------- C8
\* C8: the state find_next_move returns is the state of a root child whose
\* score is at least the score of every root child.
C8_ReturnsMaxScoreChild ==
    pc = "returned"
        => \E c \in Range(nodes[root_node].children) :
              /\ nodes[c].state = returned
              /\ \A d \in Range(nodes[root_node].children) : nodes[c].score >= nodes[d].score

\* a return where the root children do not all have the same score
C8_Witness ==
    /\ pc = "returned"
    /\ \E c, d \in Range(nodes[root_node].children) :
          /\ nodes[c].state = returned
          /\ nodes[c].score > nodes[d].score

\* ---------------------------------------------------------------- C9
\* C9: when the iteration budget is exhausted and the root has no children,
\* find_next_move panics and returns no state.
C9_NoChildrenPanics ==
    ((pc = "finish" \/ Finished) /\ nodes[root_node].children = <<>>)
        => (pc # "returned" /\ returned = NoState)

C9_Witness ==
    /\ pc = "panicked"
    /\ nodes[root_node].children = <<>>
    /\ tries = MaxTries
    /\ returned = NoState

\* ---------------------------------------------------------------- C10
\* C10: next_states() and next_random_play() are only ever called on states
\* whose status is InProgress.
C10_CallsOnlyInProgress ==
    called.fn # "none" => status(called.on) = InProgress

\* both calls happen: next_random_play in a playout that has ended, after
\* an expansion in the same call
C10_Witness ==
    /\ called.fn = "next_random_play"
    /\ status(called.on) = InProgress
    /\ Len(nodes) > 1
    /\ pc = "backprop"

\* ---------------------------------------------------------------- C12
\* p holds all three fields of one of the eight lines of b
HasLine(b, p) ==
    \E i \in 1..Len(all_checks) : \A j \in 1..3 : b.board[all_checks[i][j]] = StateFrom(p)

\* C12: on every board the search reaches, a complete line of p makes
\* status() Winner(p) and is_finished() announce p, also on a full board;
\* Draw is only the status of a full board without a complete line.
C12_LineWinsEvenWhenFull ==
    \A b \in BoardsReached :
        /\ \A p \in Player :
              HasLine(b, p) => (status(b) = Winner(p) /\ is_finished(b) = FinishedWinner(p))
        /\ status(b) = Draw
              => (free_fields(b) = 0 /\ \A p \in Player : ~HasLine(b, p))

\* ---------------------------------------------------------------- C14
\* the positions of the children of n whose UCT key is maximal
TiedBest(ns, n) ==
    {i \in 1..Len(ns[n].children) :
        \A j \in 1..Len(ns[n].children) :
            UctKey(ns, ns[n].visited, ns[n].children[j])
                <= UctKey(ns, ns[n].visited, ns[n].children[i])}

\* C14 as claimed: a descent of select_promising_node goes to the first of
\* the children that tie for the maximal UCT key.
C14_FirstOfTied ==
    [][(pc = "select" /\ nodes[promising].children # <<>>)
          => promising' = nodes[promising].children[Min(TiedBest(nodes, promising))]]_vars

\* C14 amended: a descent of select_promising_node goes to the last of the
\* children that tie for the maximal UCT key.
C14_LastOfTied ==
    [][(pc = "select" /\ nodes[promising].children # <<>>)
          => promising' = nodes[promising].children[Max(TiedBest(nodes, promising))]]_vars

\* selection has just descended into the last of several tied children
C14_Witness ==
    /\ pc = "select"
    /\ promising # root_node
    /\ LET p == nodes[promising].parent
       IN  /\ Cardinality(TiedBest(nodes, p)) >= 2
           /\ promising = nodes[p].children[Max(TiedBest(nodes, p))]

\* ---------------------------------------------------------------- C15
\* C15: when the node to simulate has status Winner(opponent), the
\* simulation makes no random move, returns that status and sets the score
\* of the node's parent, if any, to i32::MIN, changing nothing else; in
\* every other case the simulation phase changes no node.
C15_ShortCircuitOnly ==
    [][/\ pc = "simulate" =>
            IF status(nodes[promising].state) = Winner(opponent)
            THEN /\ pc' = "backprop"
                 /\ playout_result' = Winner(opponent)
                 /\ called' = called
                 /\ \A n \in 1..Len(nodes) :
                       nodes'[n] = IF n = nodes[promising].parent
                                   THEN [nodes[n] EXCEPT !.score = I32_MIN]
                                   ELSE nodes[n]
            ELSE nodes' = nodes
       /\ pc = "playout" => nodes' = nodes]_vars

\* the short circuit has just marked the parent of the simulated node
C15_Witness ==
    /\ pc = "backprop"
    /\ status(nodes[promising].state) = Winner(opponent)
    /\ playout_result = Winner(opponent)
    /\ nodes[promising].parent # NoNode
    /\ nodes[nodes[promising].parent].score = I32_MIN
    /\ nodes[promising].visited = 0

\* ---------------------------------------------------------------- C16
\* C16: a score that is the sentinel stays the sentinel, and selection
\* never descends into a node whose score is the sentinel while one of its
\* siblings has another score.
C16_SentinelNeverSelected ==
    [][/\ \A n \in 1..Len(nodes) :
             nodes[n].score = I32_MIN => nodes'[n].score = I32_MIN
       /\ (pc = "select" /\ nodes[promising].children # <<>>
              /\ nodes[promising'].score = I32_MIN)
             => \A c \in Range(nodes[promising].children) : nodes[c].score = I32_MIN]_vars

\* selection has just passed over a sentinel child that comes later in child
\* order than the child it descended into
C16_Witness ==
    /\ pc = "select"
    /\ promising # root_node
    /\ nodes[promising].score # I32_MIN
    /\ \E c \in Range(nodes[nodes[promising].parent].children) :
          c > promising /\ nodes[c].score = I32_MIN

\* ---------------------------------------------------------------- C17
\* C17: the root is the only node without a parent and its state never
\* changes; the children of a node are none or one node per next state of
\* its state, in order; children that are not empty never change and no node
\* is removed or altered in state, player or parent.
C17_TreeWellFormed ==
    /\ [](\A n \in 1..Len(nodes) :
            /\ (nodes[n].parent = NoNode) <=> (n = root_node)
            /\ nodes[n].parent # NoNode => n \in Range(nodes[nodes[n].parent].children)
            /\ \/ nodes[n].children = <<>>
               \/ /\ Len(nodes[n].children) = Len(next_states(nodes[n].state))
                  /\ \A i \in 1..Len(nodes[n].children) :
                        /\ nodes[n].children[i] \in 1..Len(nodes)
                        /\ nodes[nodes[n].children[i]].parent = n
                        /\ nodes[nodes[n].children[i]].state = next_states(nodes[n].state)[i])
    /\ [][/\ Len(nodes') >= Len(nodes)
          /\ \A n \in 1..Len(nodes) :
                /\ nodes'[n].state = nodes[n].state
                /\ nodes'[n].player = nodes[n].player
                /\ nodes'[n].parent = nodes[n].parent
                /\ nodes[n].children # <<>> => nodes'[n].children = nodes[n].children]_vars

\* a tree in which a node below the root has been expanded
C17_Witness ==
    /\ pc = "for"
    /\ \E n \in 2..Len(nodes) : Len(nodes[n].children) >= 2
    /\ \E n \in 2..Len(nodes) : nodes[n].children = <<>> /\ nodes[n].visited > 0

\* ---------------------------------------------------------------- C18
\* C18: after every iteration a node whose state is InProgress has score 0
\* or i32::MIN and a node whose state is terminal has score equal to its
\* visit count; back_propagation only changes the score of terminal nodes
\* and never the score of a node that holds the sentinel.
C18_ScoresOnlyOnTerminalNodes ==
    /\ [](pc = "for" =>
            \A n \in 1..Len(nodes) :
               IF status(nodes[n].state) = InProgress
               THEN nodes[n].score \in {0, I32_MIN}
               ELSE nodes[n].score = nodes[n].visited)
    /\ [][pc = "backprop" =>
            \A n \in 1..Len(nodes) :
               nodes'[n].score # nodes[n].score
                  => /\ status(nodes[n].state) # InProgress
                     /\ nodes[n].score # I32_MIN
                     /\ nodes'[n].score = nodes[n].score + 1]_vars

\* after an iteration: a sentinel on an InProgress node, a scored terminal
\* node, and an InProgress node a playout ran from
C18_Witness ==
    /\ pc = "for"
    /\ tries > 0
    /\ \E n \in 1..Len(nodes) :
          status(nodes[n].state) = InProgress /\ nodes[n].score = I32_MIN
    /\ \E n \in 1..Len(nodes) :
          status(nodes[n].state) # InProgress /\ nodes[n].score >= 2
    /\ \E n \in 2..Len(nodes) :
          /\ status(nodes[n].state) = InProgress
          /\ nodes[n].visited > 0 /\ nodes[n].children = <<>> /\ nodes[n].score = 0

\* ---------------------------------------------------------------- C19
RECURSIVE SumVisited(_, _)
\* the sum of the visit counts of the nodes of the sequence ids
SumVisited(ns, ids) ==
    IF ids = <<>> THEN 0 ELSE ns[Head(ids)].visited + SumVisited(ns, Tail(ids))

\* C19: after n iterations of a search from an InProgress state the visit
\* count of the root is n and is the sum of the visit counts of its
\* children; every other node with children has been visited as often as
\* its children together, or once more.
C19_VisitCounts ==
    (pc = "for" /\ status(current_state) = InProgress)
        => /\ nodes[root_node].visited = tries
           /\ SumVisited(nodes, nodes[root_node].children) = tries
           /\ \A n \in 2..Len(nodes) :
                 nodes[n].children # <<>>
                    => nodes[n].visited - SumVisited(nodes, nodes[n].children) \in {0, 1}

\* both differences occur below the root after the last iteration
C19_Witness ==
    /\ pc = "for"
    /\ tries = MaxTries
    /\ status(current_state) = InProgress
    /\ nodes[root_node].visited = MaxTries
    /\ \E n \in 2..Len(nodes) :
          nodes[n].children # <<>> /\ nodes[n].visited = SumVisited(nodes, nodes[n].children) + 1
    /\ \E n \in 2..Len(nodes) :
          nodes[n].children # <<>> /\ nodes[n].visited = SumVisited(nodes, nodes[n].children)

\* ---------------------------------------------------------------- tic_tac_toe::run::main
\* Board::new(starter)
BoardNew(starter) == Board(starter, [i \in Cells |-> E])

\* What a call find_next_move(b, own) can end with, as the caller sees it:
\* the root is expanded with b.next_states() when b is InProgress and the
\* state of one of these children is returned; without root children the
\* call panics (the empty set).  The choice among the children is left open.
find_next_move_results(b, own) ==
    IF status(b) = InProgress THEN Range(next_states(b)) ELSE {}

MainInit ==
    /\ MctsIdle
    /\ SearchIdle
    /\ main_pc = "input"
    /\ main_board = BoardNew(PLAYING_PLAYER)
    /\ winner = NotFinished

\* process_player_input with the position get_player_pos returned: a taken
\* field is refused and asked for again
ProcessPlayerInput ==
    /\ main_pc = "input"
    /\ \E player_input \in 0..8 :
          IF main_board.board[player_input + 1] = E
          THEN /\ main_board' = [main_board EXCEPT !.board[player_input + 1] = StateFrom(PLAYING_PLAYER)]
               /\ main_pc' = "player_moved"
          ELSE UNCHANGED <<main_board, main_pc>>
    /\ UNCHANGED <<winner, mcts_vars, search_vars>>

\* `if let Some(result) = is_finished(&board) { break result; }` after the
\* player's move
FinishedAfterPlayer ==
    /\ main_pc = "player_moved"
    /\ IF is_finished(main_board) # NotFinished
       THEN /\ winner' = is_finished(main_board)
            /\ main_pc' = "done"
       ELSE /\ main_pc' = "ai"
            /\ UNCHANGED winner
    /\ UNCHANGED <<main_board, mcts_vars, search_vars>>

\* `let ai_play = mcts::find_next_move(board, AI_PLAYER); board = ai_play;`
AiPlay ==
    /\ main_pc = "ai"
    /\ IF find_next_move_results(main_board, AI_PLAYER) = {}
       THEN /\ main_pc' = "panicked"
            /\ UNCHANGED main_board
       ELSE /\ \E ai_play \in find_next_move_results(main_board, AI_PLAYER) :
                   main_board' = ai_play
            /\ main_pc' = "ai_moved"
    /\ UNCHANGED <<winner, mcts_vars, search_vars>>

\* the same check after the engine's move
FinishedAfterAi ==
    /\ main_pc = "ai_moved"
    /\ IF is_finished(main_board) # NotFinished
       THEN /\ winner' = is_finished(main_board)
            /\ main_pc' = "done"
       ELSE /\ main_pc' = "input"
            /\ UNCHANGED winner
    /\ UNCHANGED <<main_board, mcts_vars, search_vars>>

MainNext ==
    \/ ProcessPlayerInput
    \/ FinishedAfterPlayer
    \/ AiPlay
    \/ FinishedAfterAi

MainSpec == MainInit /\ [][MainNext]_vars

\* ---------------------------------------------------------------- C13
\* C13: every call find_next_move(board, X) of the game loop returns the
\* board with one more field taken, a field that was empty and now holds X.
C13_AiPlacesOnlyX ==
    [][(main_pc = "ai" /\ main_pc' = "ai_moved")
          => \E c \in Cells :
                /\ main_board.board[c] = E
                /\ main_board'.board = [main_board.board EXCEPT ![c] = StateFrom(AI_PLAYER)]]_vars

\* ---------------------------------------------------------------- C20
\* C20: the game loop calls find_next_move only on a board whose status is
\* InProgress, asks the player only on such a board, and ends right after
\* the move of either player that makes the status terminal.
C20_LoopStopsAtTerminal ==
    /\ []((main_pc \in {"ai", "input"}) => status(main_board) = InProgress)
    /\ [](main_pc # "panicked")
    /\ [][(main_pc \in {"player_moved", "ai_moved"} /\ status(main_board) # InProgress)
             => (main_pc' = "done" /\ main_board' = main_board)]_vars
    /\ [](main_pc = "done" => (status(main_board) # InProgress /\ winner # NotFinished))

\* a game that ended on a win while fields were still free, after the
\* engine had been called at least twice
C20_Witness ==
    /\ main_pc = "done"
    /\ status(main_board) # InProgress
    /\ free_fields(main_board) \in 1..4
    /\ winner # NotFinished

\* ---------------------------------------------------------------- basic_search
\* basic_search::Node: a value and the ids of the children, in order
TreeNode(value, children) == [value |-> value, children |-> children]

\* the nodes whose parent is k, in increasing order
ChildrenOf(parents, n, k) ==
    SelectSeq([i \in 1..n |-> i], LAMBDA i : i > 1 /\ parents[i] = k)

\* every tree of 1..MaxNodes nodes with values in 1..MaxValue: node 1 is the
\* root and the parent of a node has a smaller id
Trees ==
    UNION {
        { [k \in 1..n |-> TreeNode(values[k], ChildrenOf(parents, n, k))] :
            parents \in {f \in [1..n -> 0..(n - 1)] : \A i \in 1..n : f[i] < i /\ (i > 1 => f[i] >= 1)},
            values \in [1..n -> 1..MaxValue] } :
        n \in 1..MaxNodes }

\* tree!(1, tree!(6, tree!(5), tree!(4)), tree!(6)) of the tests
TestTree ==
    << TreeNode(1, <<2, 5>>), TreeNode(6, <<3, 4>>), TreeNode(5, <<>>),
       TreeNode(4, <<>>), TreeNode(6, <<>>) >>

\* the searches of the tests: 7 and 5 in TestTree
SearchInputs ==
    {[tree |-> t, searched |-> v] : t \in Trees, v \in 1..(MaxValue + 1)}
        \cup {[tree |-> TestTree, searched |-> v] : v \in {5, 7}}

\* breadth_first_search up to its loop: the queue holds the root
SearchInit ==
    /\ MctsIdle
    /\ MainIdle
    /\ \E inp \in SearchInputs :
          /\ tree = inp.tree
          /\ searched = inp.searched
    /\ search_pc = "bfs"
    /\ candidates = <<1>>
    /\ bfs_result = FALSE
    /\ dfs_result = FALSE

\* variant: the children replace the queue
candidates_replace(rest, children) == children

\* candidates.extend(candidate.children.iter()) after pop_front
candidates_extend(rest, children) == rest \o children

\* one turn of the loop of breadth_first_search, or its final `false`
BreadthFirstSearch ==
    /\ search_pc = "bfs"
    /\ IF candidates = <<>>
       THEN /\ bfs_result' = FALSE
            /\ search_pc' = "dfs"
            /\ UNCHANGED candidates
       ELSE LET candidate == Head(candidates)
            IN  IF tree[candidate].value = searched
                THEN /\ bfs_result' = TRUE
                     /\ search_pc' = "dfs"
                     /\ UNCHANGED candidates
                ELSE /\ candidates' = candidates_extend(Tail(candidates), tree[candidate].children)
                     /\ UNCHANGED <<bfs_result, search_pc>>
    /\ UNCHANGED <<tree, searched, dfs_result, mcts_vars, main_vars>>

RECURSIVE depth_first_search(_, _, _)
\* depth_first_search on the subtree at node n: the node itself, then the
\* children in order until one of them has it
depth_first_search(t, n, s) ==
    IF t[n].value = s THEN TRUE
    ELSE \E i \in 1..Len(t[n].children) : depth_first_search(t, t[n].children[i], s)

DepthFirstSearch ==
    /\ search_pc = "dfs"
    /\ dfs_result' = depth_first_search(tree, 1, searched)
    /\ search_pc' = "done"
    /\ UNCHANGED <<tree, searched, candidates, bfs_result, mcts_vars, main_vars>>

SearchNext ==
    \/ BreadthFirstSearch
    \/ DepthFirstSearch

SearchSpec == SearchInit /\ [][SearchNext]_vars

\* ---------------------------------------------------------------- C11
\* some node of the tree holds the searched value
TreeContains == \E n \in 1..Len(tree) : tree[n].value = searched

\* C11: breadth_first_search and depth_first_search both return true
\* exactly when some node of the tree holds the searched value.
C11_SearchesFindExactly ==
    /\ search_pc \in {"dfs", "done"} => (bfs_result <=> TreeContains)
    /\ search_pc = "done" => (dfs_result <=> TreeContains)

\* both searches found a value that only the last node of a tree with two
\* subtrees holds
C11_Witness ==
    /\ search_pc = "done"
    /\ bfs_result /\ dfs_result
    /\ Len(tree) >= 4
    /\ Len(tree[1].children) >= 2
    /\ \A n \in 1..(Len(tree) - 1) : tree[n].value # searched
    /\ tree[Len(tree)].value = searched

\* both searches answered false
C11_WitnessAbsent ==
    /\ search_pc = "done"
    /\ ~bfs_result /\ ~dfs_result
    /\ Len(tree) >= 4

====
